---- MODULE Spec2Model ----
(***************************************************************************)
(* Model of the MCP demo server of main.py: the POST /mcp JSON-RPC         *)
(* dispatcher, its in-memory session store SESSIONS, and the three other   *)
(* routes.  A request is accepted (the handler is suspended at             *)
(* `await request.json()`), then the rest of the handler runs without      *)
(* suspension, then the response is delivered.                             *)
(***************************************************************************)
EXTENDS Integers, Sequences, FiniteSets, Bags, TLC

VARIABLES SESSIONS,   \* main.py:33  session id -> [ready |-> BOOLEAN]
          issued,     \* the values uuid.uuid4() has returned so far
          pydantic,   \* major version of the installed pydantic (1 or 2)
          pc,         \* "idle" | "awaiting" (suspended at line 87) | "done"
          request,    \* the HTTP request being served
          response,   \* the HTTP response produced for it
          suspended   \* the requests of the other handlers suspended at line 87

vars == <<SESSIONS, issued, pydantic, pc, request, response, suspended>>

(***************************************************************************)
(* Bounds.                                                                 *)
(***************************************************************************)
MaxSessions == 2
\* the handlers that may be suspended at line 87 together
MaxInFlight == 2

(***************************************************************************)
(* JSON / Python values, tagged by type.                                   *)
(***************************************************************************)
None == [t |-> "null"]
JStr(s) == [t |-> "str", v |-> s]
JInt(n) == [t |-> "int", v |-> n]
JBool(b) == [t |-> "bool", v |-> b]
JList(s) == [t |-> "list", v |-> s]
JDict(f) == [t |-> "dict", v |-> f]
\* a request body that is not JSON text
NotJson == [t |-> "notjson"]
\* marks a key left out of an object under construction
Absent == [t |-> "absent"]

EmptyDict == [k \in {} |-> None]
Field(k, v) == IF v = Absent THEN EmptyDict ELSE (k :> v)

\* dict.get(k, default)
Get(d, k, default) == IF k \in DOMAIN d THEN d[k] ELSE default

\* Python truthiness, as used by `x or {}` and `not x`
Falsy(v) ==
    \/ v.t = "null"
    \/ v.t = "str" /\ v.v = ""
    \/ v.t = "int" /\ v.v = 0
    \/ v.t = "bool" /\ v.v = FALSE
    \/ v.t = "list" /\ v.v = <<>>
    \/ v.t = "dict" /\ DOMAIN v.v = {}

Digits == <<"0", "1", "2", "3", "4", "5", "6", "7", "8", "9">>
\* str(n) for the one-digit integers the requests carry
IntToStr(n) == Digits[n + 1]

\* str(v), as done by an f-string
PyStr(v) ==
    CASE v.t = "str" -> v.v
      [] v.t = "int" -> IntToStr(v.v)
      [] v.t = "null" -> "None"
      [] v.t = "bool" -> IF v.v THEN "True" ELSE "False"
      [] OTHER -> "<repr>"

(***************************************************************************)
(* pydantic field validation (main.py:44-53).  The repository pins no      *)
(* pydantic version: version 1 coerces numbers to str and dict()-converts  *)
(* empty sequences, version 2 accepts only the declared type.  The lists   *)
(* of the model hold no key/value pairs.                                   *)
(***************************************************************************)
Ok(v) == [ok |-> TRUE, v |-> v]
Fail == [ok |-> FALSE, v |-> None]

\* a field annotated `str`
StrField(v, ver) ==
    CASE v.t = "str" -> Ok(v)
      [] v.t \in {"int", "bool"} /\ ver = 1 -> Ok(JStr(PyStr(v)))
      [] OTHER -> Fail

\* a field annotated `Dict[str, Any]`
DictField(v, ver) ==
    CASE v.t = "dict" -> Ok(v)
      [] v.t \in {"list", "str"} /\ Falsy(v) /\ ver = 1 -> Ok(JDict(EmptyDict))
      [] OTHER -> Fail

\* a required field of keyword arguments kw
Required(kw, k) == IF k \in DOMAIN kw THEN kw[k] ELSE Absent
\* a field annotated Optional[...] = None: absent and null both give None
IsNone(kw, k) == k \notin DOMAIN kw \/ kw[k] = None

\* method declared Optional[str] = None
JsonRpcReq_method_optional(payload, ver) ==
    IF payload.t # "dict"
    THEN [ok |-> FALSE, errors |-> {"**"}]
    ELSE LET kw == payload.v
             jsonrpc == StrField(Required(kw, "jsonrpc"), ver)
             id == IF IsNone(kw, "id") THEN Ok(None) ELSE StrField(kw["id"], ver)
             method == IF IsNone(kw, "method") THEN Ok(None)
                       ELSE StrField(kw["method"], ver)
             params == IF IsNone(kw, "params") THEN Ok(None)
                       ELSE DictField(kw["params"], ver)
             errors == {k \in {"jsonrpc", "id", "method", "params"} :
                          \/ k = "jsonrpc" /\ ~jsonrpc.ok
                          \/ k = "id" /\ ~id.ok
                          \/ k = "method" /\ ~method.ok
                          \/ k = "params" /\ ~params.ok}
         IN  [ok |-> errors = {}, errors |-> errors, jsonrpc |-> jsonrpc.v,
              id |-> id.v, method |-> method.v, params |-> params.v]

\* class JsonRpcReq, applied as JsonRpcReq(**payload)
JsonRpcReq(payload, ver) ==
    IF payload.t # "dict"
    THEN [ok |-> FALSE, errors |-> {"**"}]
    ELSE LET kw == payload.v
             jsonrpc == StrField(Required(kw, "jsonrpc"), ver)
             id == IF IsNone(kw, "id") THEN Ok(None) ELSE StrField(kw["id"], ver)
             method == StrField(Required(kw, "method"), ver)
             params == IF IsNone(kw, "params") THEN Ok(None)
                       ELSE DictField(kw["params"], ver)
             errors == {k \in {"jsonrpc", "id", "method", "params"} :
                          \/ k = "jsonrpc" /\ ~jsonrpc.ok
                          \/ k = "id" /\ ~id.ok
                          \/ k = "method" /\ ~method.ok
                          \/ k = "params" /\ ~params.ok}
         IN  [ok |-> errors = {}, errors |-> errors, jsonrpc |-> jsonrpc.v,
              id |-> id.v, method |-> method.v, params |-> params.v]

\* class InitializeParams, applied as InitializeParams(**(req.params or {}))
InitializeParams(params, ver) ==
    LET kw == IF Falsy(params) THEN EmptyDict ELSE params.v
        protocolVersion == StrField(Required(kw, "protocolVersion"), ver)
        clientInfo == DictField(Required(kw, "clientInfo"), ver)
        capabilities == DictField(Required(kw, "capabilities"), ver)
        errors == {k \in {"protocolVersion", "clientInfo", "capabilities"} :
                     \/ k = "protocolVersion" /\ ~protocolVersion.ok
                     \/ k = "clientInfo" /\ ~clientInfo.ok
                     \/ k = "capabilities" /\ ~capabilities.ok}
    IN  [ok |-> errors = {}, errors |-> errors]

\* str(e) of a validation failure, kept as the names of the offending fields
Diagnostic(errors) == [t |-> "diag", v |-> errors]

(***************************************************************************)
(* Response envelopes (main.py:58-65).                                     *)
(***************************************************************************)
_ok(id, result) == [jsonrpc |-> "2.0", id |-> id, result |-> result]

_err(id, code, message, data) ==
    IF data = None
    THEN [jsonrpc |-> "2.0", id |-> id, error |-> [code |-> code, message |-> message]]
    ELSE [jsonrpc |-> "2.0", id |-> id,
          error |-> [code |-> code, message |-> message, data |-> data]]

(***************************************************************************)
(* Session store operations (main.py:55-56, 105-106, 116, 121).            *)
(***************************************************************************)
HexTokens == <<"0a", "1b", "2c", "3d", "4e", "5f">>
\* the values uuid4().hex can take
SessionIds == {HexTokens[i] : i \in 1..(MaxSessions + 1)}

\* a generator that may repeat a value
_new_session_id_repeating(used) == SessionIds

\* uuid.uuid4().hex: a value uuid4 has not returned before
_new_session_id(used) == SessionIds \ used

\* the store reassigned instead of updated
CreateSession_reassigning(S, sid) == (sid :> [ready |-> FALSE])

\* the new session created ready
CreateSession_ready(S, sid) == (sid :> [ready |-> TRUE]) @@ S

\* SESSIONS[sid] = {"ready": False}
CreateSession(S, sid) == (sid :> [ready |-> FALSE]) @@ S

\* the membership test left out
MissingOrInvalid_presence_only(h, S) == Falsy(h)

\* readiness enforced as a gate
MissingOrInvalid_ready_gate(h, S) ==
    Falsy(h) \/ h.v \notin DOMAIN S \/ ~S[h.v].ready

\* not mcp_session_id or mcp_session_id not in SESSIONS
MissingOrInvalid(h, S) == Falsy(h) \/ h.v \notin DOMAIN S

\* the flag toggled instead of set
MarkReady_toggling(S, sid) == [S EXCEPT ![sid] = [@ EXCEPT !.ready = ~@]]

\* the flag left alone
MarkReady_skipped(S, sid) == S

\* SESSIONS[mcp_session_id]["ready"] = True
MarkReady(S, sid) == [S EXCEPT ![sid] = [@ EXCEPT !.ready = TRUE]]

(***************************************************************************)
(* Tools (main.py:125-186).                                                *)
(***************************************************************************)
\* the listing of tools/list
tools ==
    << [name |-> "ping", description |-> "health check",
        inputSchema |-> [type |-> "object",
                         properties |-> [message |-> [type |-> "string"]]]],
       [name |-> "get_student_profile", description |-> "Lookup by student_id",
        inputSchema |-> [type |-> "object", required |-> <<"student_id">>,
                         properties |-> [student_id |-> [type |-> "string"]]]] >>

\* the fixture table of get_student_profile (the en dash of year and the
\* accented letter of last_name are written in ASCII)
FIX ==
    ("student_en_001" :>
        [id |-> "student_en_001", first_name |-> "Ava", last_name |-> "Johnson",
         language |-> "en", eligible_fafsa |-> TRUE, year |-> "2025-26",
         dependency |-> "dependent", parent_status_2023 |-> "divorced",
         contributors_expected |-> 2, schools |-> <<"Harvard University">>])
    @@
    ("student_es_001" :>
        [id |-> "student_es_001", first_name |-> "Mateo", last_name |-> "Garcia",
         language |-> "es", eligible_fafsa |-> TRUE, year |-> "2025-26",
         dependency |-> "dependent", parent_status_2023 |-> "divorciado",
         contributors_expected |-> 2, schools |-> <<"Universidad de Harvard">>])

\* json.dumps(obj, ensure_ascii=False): the JSON text of obj
JsonDumps(obj) == [json_text_of |-> obj]

TextBlock(text) == [type |-> "text", text |-> text]

\* what a tools/call evaluates to: a response body, or an uncaught exception
Returns(body) == [raised |-> FALSE, body |-> body]
Raises(exc) == [raised |-> TRUE, exc |-> exc]

\* the ping branch, lines 148-153
Ping(id, args) ==
    IF args.t # "dict"
    THEN Raises("AttributeError")
    ELSE LET msg == Get(args.v, "message", JStr(""))
         IN  Returns(_ok(id, [content |-> <<TextBlock("pong: " \o PyStr(msg))>>,
                              structuredContent |-> [ok |-> TRUE]]))

\* the get_student_profile branch, lines 155-184
GetStudentProfile(id, args) ==
    IF args.t # "dict"
    THEN Raises("AttributeError")
    ELSE LET sid == Get(args.v, "student_id", JStr(""))
         IN  IF sid.t \in {"list", "dict"}
             THEN Raises("TypeError")
             ELSE IF sid.t = "str" /\ sid.v \in DOMAIN FIX
                  THEN LET obj == FIX[sid.v]
                       IN  Returns(_ok(id, [content |-> <<TextBlock(JsonDumps(obj))>>,
                                            structuredContent |-> obj,
                                            isError |-> FALSE]))
                  ELSE LET miss == [error |-> "not found", student_id |-> sid]
                       IN  Returns(_ok(id, [content |-> <<TextBlock(JsonDumps(miss))>>,
                                            structuredContent |-> miss,
                                            isError |-> FALSE]))

\* the arguments read before the name is tested
ToolsCall_args_first(req) ==
    LET params == IF Falsy(req.params) THEN EmptyDict ELSE req.params.v
        name == Get(params, "name", None)
        arguments == Get(params, "arguments", None)
        args == IF Falsy(arguments) THEN JDict(EmptyDict) ELSE arguments
    IN  IF args.t # "dict" THEN Raises("AttributeError")
        ELSE IF name = JStr("ping") THEN Ping(req.id, args)
        ELSE IF name = JStr("get_student_profile") THEN GetStudentProfile(req.id, args)
        ELSE Returns(_err(req.id, -32601,
                          "Unknown tool '" \o PyStr(name) \o "'", None))

\* the tools/call branch, lines 144-186
ToolsCall(req) ==
    LET params == IF Falsy(req.params) THEN EmptyDict ELSE req.params.v
        name == Get(params, "name", None)
        arguments == Get(params, "arguments", None)
        args == IF Falsy(arguments) THEN JDict(EmptyDict) ELSE arguments
    IN  IF name = JStr("ping") THEN Ping(req.id, args)
        ELSE IF name = JStr("get_student_profile") THEN GetStudentProfile(req.id, args)
        ELSE Returns(_err(req.id, -32601,
                          "Unknown tool '" \o PyStr(name) \o "'", None))

(***************************************************************************)
(* The POST /mcp handler from its suspension point on (main.py:84-188).    *)
(***************************************************************************)
ExposeHeaders == ("Access-Control-Expose-Headers" :> "mcp-session-id")
NoHeaders == [k \in {} |-> ""]

Out(status, headers, body, S, sid) ==
    [status |-> status, headers |-> headers, body |-> body, sessions |-> S,
     uuid |-> sid]

\* an exception no handler catches: the framework answers 500 and the headers
\* set on the injected Response are dropped
Uncaught(exc, S) ==
    Out(500, NoHeaders, [text |-> "Internal Server Error", exc |-> exc], S, {})

\* lines 88-90: the body is not JSON
ParseFailure(S) ==
    Out(400, ExposeHeaders, _err(None, -32700, "Parse error", None), S, {})

\* the status left at its default
InvalidRequest_unflagged(req, S) ==
    Out(200, ExposeHeaders,
        _err(None, -32600, "Invalid Request", Diagnostic(req.errors)), S, {})

\* lines 94-96: JsonRpcReq(**payload) raised
InvalidRequest(req, S) ==
    Out(400, ExposeHeaders,
        _err(None, -32600, "Invalid Request", Diagnostic(req.errors)), S, {})

\* the session created before the parameters are validated
Initialize_eager(req, S, sid, ver) ==
    LET checked == InitializeParams(req.params, ver) IN
    IF ~checked.ok
    THEN Out(400, ExposeHeaders,
             _err(req.id, -32602, "Invalid request parameters",
                  Diagnostic(checked.errors)), CreateSession(S, sid), {sid})
    ELSE Out(200, ("mcp-session-id" :> sid) @@ ExposeHeaders,
             _ok(req.id, [protocolVersion |-> "2024-11-05",
                          capabilities |-> EmptyDict,
                          sessionId |-> sid]),
             CreateSession(S, sid), {sid})

\* lines 99-113: the initialize branch
Initialize(req, S, sid, ver) ==
    LET checked == InitializeParams(req.params, ver) IN
    IF ~checked.ok
    THEN Out(400, ExposeHeaders,
             _err(req.id, -32602, "Invalid request parameters",
                  Diagnostic(checked.errors)), S, {})
    ELSE Out(200, ("mcp-session-id" :> sid) @@ ExposeHeaders,
             _ok(req.id, [protocolVersion |-> "2024-11-05",
                          capabilities |-> EmptyDict,
                          sessionId |-> sid]),
             CreateSession(S, sid), {sid})

\* lines 117-118
SessionError(req, S) ==
    Out(400, ExposeHeaders,
        _err(req.id, -32000, "Missing or invalid session", None), S, {})

\* lines 120-123; a key missing from SESSIONS raises KeyError
NotificationsInitialized(h, S) ==
    IF h.v \notin DOMAIN S
    THEN Uncaught("KeyError", S)
    ELSE Out(202, ExposeHeaders, EmptyDict, MarkReady(S, h.v), {})

\* lines 125-142
ToolsList(req, S) == Out(200, ExposeHeaders, _ok(req.id, [tools |-> tools]), S, {})

\* lines 144-186, as a response
ToolsCallResponse(req, S) ==
    LET called == ToolsCall(req) IN
    IF called.raised
    THEN Uncaught(called.exc, S)
    ELSE Out(200, ExposeHeaders, called.body, S, {})

\* the unknown method reported as an invalid request
UnknownMethod_invalid_request(req, S) ==
    Out(400, ExposeHeaders, _err(req.id, -32600, "Invalid Request", None), S, {})

\* line 188
UnknownMethod(req, S) ==
    Out(200, ExposeHeaders,
        _err(req.id, -32601, "Unknown method '" \o PyStr(req.method) \o "'", None),
        S, {})

\* the session check made before the initialize branch
Handle_session_first(rq, S, sid, ver) ==
    LET payload == rq.body
        h == rq.mcp_session_id
    IN
    IF payload = NotJson THEN ParseFailure(S)
    ELSE
    LET req == JsonRpcReq(payload, ver) IN
    IF ~req.ok THEN InvalidRequest(req, S)
    ELSE IF MissingOrInvalid(h, S) THEN SessionError(req, S)
    ELSE IF req.method = JStr("initialize") THEN Initialize(req, S, sid, ver)
    ELSE IF req.method = JStr("notifications/initialized")
         THEN NotificationsInitialized(h, S)
    ELSE IF req.method = JStr("tools/list") THEN ToolsList(req, S)
    ELSE IF req.method = JStr("tools/call") THEN ToolsCallResponse(req, S)
    ELSE UnknownMethod(req, S)

\* rq: the request; S: SESSIONS; sid: what uuid4().hex returns if called
Handle(rq, S, sid, ver) ==
    LET payload == rq.body
        h == rq.mcp_session_id
    IN
    IF payload = NotJson THEN ParseFailure(S)
    ELSE
    LET req == JsonRpcReq(payload, ver) IN
    IF ~req.ok THEN InvalidRequest(req, S)
    ELSE IF req.method = JStr("initialize") THEN Initialize(req, S, sid, ver)
    ELSE IF MissingOrInvalid(h, S) THEN SessionError(req, S)
    ELSE IF req.method = JStr("notifications/initialized")
         THEN NotificationsInitialized(h, S)
    ELSE IF req.method = JStr("tools/list") THEN ToolsList(req, S)
    ELSE IF req.method = JStr("tools/call") THEN ToolsCallResponse(req, S)
    ELSE UnknownMethod(req, S)

(***************************************************************************)
(* The requests a client sends.                                            *)
(***************************************************************************)
Envelope(jsonrpc, id, method, params) ==
    JDict(Field("jsonrpc", jsonrpc) @@ Field("id", id) @@ Field("method", method)
          @@ Field("params", params))

Obj1(k, v) == JDict(k :> v)

InitParams(protocolVersion, clientInfo, capabilities) ==
    JDict(Field("protocolVersion", protocolVersion) @@ Field("clientInfo", clientInfo)
          @@ Field("capabilities", capabilities))

GoodInit == InitParams(JStr("2024-11-05"), Obj1("name", JStr("agent")), JDict(EmptyDict))

InitParamsSet ==
    { Absent, None, JList(<<JInt(1)>>), JDict(EmptyDict), GoodInit,
      InitParams(Absent, JDict(EmptyDict), JDict(EmptyDict)),
      InitParams(JStr("2024-11-05"), Absent, JDict(EmptyDict)),
      InitParams(JStr("2024-11-05"), JDict(EmptyDict), Absent),
      InitParams(JInt(5), JDict(EmptyDict), JDict(EmptyDict)),
      InitParams(JStr("2024-11-05"), JStr("agent"), JDict(EmptyDict)),
      InitParams(JStr("2024-11-05"), JList(<<>>), JDict(EmptyDict)),
      InitParams(JStr("2024-11-05"), JDict(EmptyDict), None) }

CallParams(name, arguments) ==
    JDict(Field("name", name) @@ Field("arguments", arguments))

GoodCall == CallParams(JStr("ping"), Obj1("message", JStr("hi")))

CallParamsSet ==
    { Absent, None, JDict(EmptyDict), GoodCall }
    \cup { CallParams(JStr("ping"), a) :
             a \in { Absent, None, JDict(EmptyDict), Obj1("message", JInt(5)),
                     JList(<<JInt(1)>>), JStr("hi") } }
    \cup { CallParams(JStr("get_student_profile"), a) :
             a \in { Absent, JDict(EmptyDict),
                     Obj1("student_id", JStr("student_en_001")),
                     Obj1("student_id", JStr("student_es_001")),
                     Obj1("student_id", JStr("nonexistent")),
                     Obj1("student_id", JInt(5)),
                     Obj1("student_id", JList(<<JInt(1)>>)),
                     JList(<<JInt(1)>>), JStr("student_en_001") } }
    \cup { CallParams(JStr("nope"), a) : a \in { Absent, JList(<<JInt(1)>>) } }
    \cup { CallParams(Absent, Obj1("message", JStr("hi"))) }

IdValues == { Absent, None, JStr("a"), JInt(7) }

MethodValues ==
    { Absent, JStr("initialize"), JStr("notifications/initialized"),
      JStr("tools/list"), JStr("tools/call"), JStr("foo/bar") }

\* the params a well-formed call of the method carries
UsualParams(method) ==
    IF method = JStr("initialize") THEN GoodInit
    ELSE IF method = JStr("tools/call") THEN GoodCall
    ELSE Absent

Bodies ==
    \* not JSON, a JSON array, JSON scalars
    { NotJson, JList(<<>>), JList(<<JInt(1)>>), JInt(5), JStr("initialize"), None }
    \cup { Envelope(JStr("2.0"), i, m, UsualParams(m)) :
             i \in IdValues, m \in MethodValues }
    \cup { Envelope(JStr("2.0"), JStr("a"), JStr("initialize"), p) : p \in InitParamsSet }
    \cup { Envelope(JStr("2.0"), JStr("a"), JStr("tools/call"), p) : p \in CallParamsSet }
    \cup { Envelope(j, JStr("a"), JStr("tools/list"), Absent) :
             j \in { Absent, None, JInt(2), JStr("1.0") } }
    \cup { Envelope(JStr("2.0"), JStr("a"), JInt(5), Absent) }

\* the mcp-session-id request header: absent, empty, or a token
HeaderValues == { None, JStr("") } \cup { JStr(s) : s \in SessionIds }

Req(route, body, h) == [route |-> route, body |-> body, mcp_session_id |-> h]

Requests ==
    { Req("POST /mcp", b, h) : b \in Bodies, h \in HeaderValues }
    \cup { Req(r, Absent, None) : r \in {"GET /", "GET /health", "OPTIONS /mcp"} }

NoRequest == Req("", Absent, None)
NoResponse == [status |-> 0, headers |-> NoHeaders, body |-> EmptyDict]

\* the method a request body names, before validation
IsInitialize(rq) ==
    /\ rq.body.t = "dict"
    /\ Get(rq.body.v, "method", None) = JStr("initialize")

(***************************************************************************)
(* Actions.                                                                *)
(***************************************************************************)
Init ==
    /\ SESSIONS = [s \in {} |-> [ready |-> FALSE]]
    /\ issued = {}
    /\ pydantic \in {1, 2}
    /\ pc = "idle"
    /\ request = NoRequest
    /\ response = NoResponse
    /\ suspended = EmptyBag

\* a request arrives and is routed; POST /mcp suspends at `await request.json()`
Accept ==
    /\ pc = "idle"
    /\ \E rq \in Requests :
          /\ IsInitialize(rq) => Cardinality(issued) < MaxSessions
          /\ request' = rq
    /\ pc' = "awaiting"
    /\ UNCHANGED <<SESSIONS, issued, pydantic, response, suspended>>

\* GET /
root ==
    /\ pc = "awaiting" /\ request.route = "GET /"
    /\ response' = [status |-> 200, headers |-> NoHeaders,
                    body |-> [service |-> "MCP demo",
                              endpoints |-> <<"/health", "/mcp">>]]
    /\ pc' = "done"
    /\ UNCHANGED <<SESSIONS, issued, pydantic, request, suspended>>

\* GET /health
health ==
    /\ pc = "awaiting" /\ request.route = "GET /health"
    /\ response' = [status |-> 200, headers |-> NoHeaders, body |-> [ok |-> TRUE]]
    /\ pc' = "done"
    /\ UNCHANGED <<SESSIONS, issued, pydantic, request, suspended>>

\* OPTIONS /mcp
mcp_options ==
    /\ pc = "awaiting" /\ request.route = "OPTIONS /mcp"
    /\ response' =
          [status |-> 204,
           headers |-> [k \in {"Access-Control-Allow-Methods",
                               "Access-Control-Allow-Headers",
                               "Access-Control-Allow-Credentials",
                               "Access-Control-Expose-Headers"} |->
                          CASE k = "Access-Control-Allow-Methods" -> "POST, OPTIONS"
                            [] k = "Access-Control-Allow-Headers" ->
                                  "content-type, mcp-session-id"
                            [] k = "Access-Control-Allow-Credentials" -> "true"
                            [] OTHER -> "mcp-session-id"],
           body |-> EmptyDict]
    /\ pc' = "done"
    /\ UNCHANGED <<SESSIONS, issued, pydantic, request, suspended>>

\* POST /mcp
mcp ==
    /\ pc = "awaiting" /\ request.route = "POST /mcp"
    /\ \E sid \in _new_session_id(issued) :
          LET out == Handle(request, SESSIONS, sid, pydantic)
          IN  /\ SESSIONS' = out.sessions
              /\ issued' = issued \cup out.uuid
              /\ response' = [status |-> out.status, headers |-> out.headers,
                              body |-> out.body]
    /\ pc' = "done"
    /\ UNCHANGED <<pydantic, request, suspended>>

\* the response is sent and the exchange ends
Deliver ==
    /\ pc = "done"
    /\ pc' = "idle"
    /\ request' = NoRequest
    /\ response' = NoResponse
    /\ UNCHANGED <<SESSIONS, issued, pydantic, suspended>>

Next == Accept \/ root \/ health \/ mcp_options \/ mcp \/ Deliver

Spec == Init /\ [][Next]_vars

(***************************************************************************)
(* Concurrent handling.  `mcp` is a coroutine on one event loop: its only  *)
(* await is `await request.json()` (line 87), so a handler can be          *)
(* suspended there and nowhere else, and lines 88-188 run without          *)
(* interruption.  `suspended` holds the requests of the handlers waiting   *)
(* at line 87; the loop resumes them in any order.                         *)
(***************************************************************************)
\* the requests sent concurrently: initialize, and notifications/initialized
\* for a token that may or may not have been issued yet
ConcRequests ==
    { Req("POST /mcp",
          Envelope(JStr("2.0"), JStr("a"), JStr("initialize"), GoodInit), None) }
    \cup { Req("POST /mcp",
               Envelope(JStr("2.0"), JStr("a"), JStr("notifications/initialized"),
                        Absent),
               JStr(s)) : s \in SessionIds }

\* the suspended handlers whose request is an initialize
PendingInitialize(B) ==
    BagCardinality([rq \in {r \in BagToSet(B) : IsInitialize(r)} |-> B[rq]])

\* lines 79-87: a handler starts and is suspended awaiting its body
mcp_suspend ==
    /\ BagCardinality(suspended) < MaxInFlight
    /\ \E rq \in ConcRequests :
          /\ IsInitialize(rq)
             => Cardinality(issued) + PendingInitialize(suspended) < MaxSessions
          /\ suspended' = suspended (+) SetToBag({rq})
    /\ UNCHANGED <<SESSIONS, issued, pydantic, pc, request, response>>

\* lines 88-188: the loop resumes one suspended handler, which runs to its
\* return
mcp_resume ==
    /\ \E rq \in BagToSet(suspended) :
          /\ suspended' = suspended (-) SetToBag({rq})
          /\ request' = rq
          /\ \E sid \in _new_session_id(issued) :
                LET out == Handle(rq, SESSIONS, sid, pydantic)
                IN  /\ SESSIONS' = out.sessions
                    /\ issued' = issued \cup out.uuid
                    /\ response' = [status |-> out.status, headers |-> out.headers,
                                    body |-> out.body]
    /\ pc' = "done"
    /\ UNCHANGED pydantic

NextC == mcp_suspend \/ mcp_resume

SpecConc == Init /\ [][NextC]_vars

(***************************************************************************)
(* Vocabulary of the properties.                                           *)
(***************************************************************************)
\* the POST /mcp handler has just answered `request` with `response`
Answered == pc = "done" /\ request.route = "POST /mcp"
\* the step in which the POST /mcp handler runs
Answering == pc = "awaiting" /\ pc' = "done" /\ request.route = "POST /mcp"

Decoded == JsonRpcReq(request.body, pydantic)
ValidEnvelope == Decoded.ok
MethodIs(m) == ValidEnvelope /\ Decoded.method = JStr(m)
Presented == request.mcp_session_id
\* the presented id is a key of store S
Known(S) == Presented # None /\ Presented.v \in DOMAIN S

HasError(r) == "error" \in DOMAIN r.body
HasResult(r) == "result" \in DOMAIN r.body
ErrorIs(r, code) == HasError(r) /\ r.body.error.code = code
IssuesSession(r) == "mcp-session-id" \in DOMAIN r.headers

(***************************************************************************)
(* C1: a request with a valid envelope and a method other than initialize  *)
(* that presents no session id, or one that is not a key of SESSIONS, is   *)
(* answered with error -32000 "Missing or invalid session" and HTTP 400.   *)
(***************************************************************************)
C1_SessionRequired ==
    (Answered /\ ValidEnvelope /\ ~MethodIs("initialize") /\ ~Known(SESSIONS))
    => /\ response.status = 400
       /\ ErrorIs(response, -32000)
       /\ response.body.error.message = "Missing or invalid session"

\* a tools/call presenting a token no initialize issued, while a session exists
C1_Witness ==
    /\ Answered /\ MethodIs("tools/call")
    /\ Presented # None /\ Presented.v \in SessionIds \ DOMAIN SESSIONS
    /\ DOMAIN SESSIONS # {}
    /\ ErrorIs(response, -32000)

(***************************************************************************)
(* C2: sessions are never removed: a key of SESSIONS stays a key, and      *)
(* still passes the session check, after every step.                       *)
(***************************************************************************)
C2_SessionsNeverRemoved ==
    [][\A s \in DOMAIN SESSIONS :
          s \in DOMAIN SESSIONS' /\ ~MissingOrInvalid(JStr(s), SESSIONS')]_vars

\* a second initialize has succeeded and the first session is still there
C2_Witness ==
    /\ Answered /\ IssuesSession(response)
    /\ Cardinality(DOMAIN SESSIONS) = 2

C4_ReadyMonotonic ==
    [][\A s \in DOMAIN SESSIONS' :
          /\ s \notin DOMAIN SESSIONS => ~SESSIONS'[s].ready
          /\ (s \in DOMAIN SESSIONS /\ SESSIONS[s].ready) => SESSIONS'[s].ready
          /\ (s \in DOMAIN SESSIONS /\ ~SESSIONS[s].ready /\ SESSIONS'[s].ready)
             => /\ Answering
                /\ MethodIs("notifications/initialized")
                /\ Presented = JStr(s)]_vars

\* a ready session has stayed ready through a later initialize
C4_Witness ==
    /\ Answered /\ IssuesSession(response)
    /\ \E s \in DOMAIN SESSIONS : SESSIONS[s].ready

(***************************************************************************)
(* C5: readiness is not a gate: with a known session id, tools/list and    *)
(* tools/call are answered as they would be with the session's ready flag  *)
(* reversed, never with the session error, and tools/list succeeds.        *)
(***************************************************************************)
C5_ReadinessNotAGate ==
    (Answered /\ (MethodIs("tools/list") \/ MethodIs("tools/call")) /\ Known(SESSIONS))
    => LET reversed == [SESSIONS EXCEPT ![Presented.v] = [@ EXCEPT !.ready = ~@]]
           other == Handle(request, reversed, Presented.v, pydantic)
       IN  /\ response = [status |-> other.status, headers |-> other.headers,
                          body |-> other.body]
           /\ ~ErrorIs(response, -32000)
           /\ MethodIs("tools/list")
              => /\ response.status = 200
                 /\ HasResult(response)
                 /\ response.body.result.tools = tools

\* a tool call answered with a result for a session that is not ready
C5_Witness ==
    /\ Answered /\ MethodIs("tools/call") /\ Known(SESSIONS)
    /\ ~SESSIONS[Presented.v].ready
    /\ HasResult(response)

(***************************************************************************)
(* C6: notifications/initialized with a known session id is answered 202   *)
(* with an empty body and leaves the session ready; a tools/list for a     *)
(* session made ready this way succeeds.                                   *)
(***************************************************************************)
C6_NotificationAccepted ==
    [][/\ (Answering /\ MethodIs("notifications/initialized") /\ Known(SESSIONS))
          => /\ response'.status = 202
             /\ response'.body = EmptyDict
             /\ Presented.v \in DOMAIN SESSIONS'
             /\ SESSIONS'[Presented.v].ready
       /\ (/\ Answering /\ MethodIs("tools/list") /\ Known(SESSIONS)
           /\ SESSIONS[Presented.v].ready)
          => /\ response'.status = 200
             /\ HasResult(response')
             /\ response'.body.result.tools = tools]_vars

\* tools/list answered for a session after its notification
C6_Witness ==
    /\ Answered /\ MethodIs("tools/list") /\ Known(SESSIONS)
    /\ SESSIONS[Presented.v].ready
    /\ response.status = 200 /\ HasResult(response)

(***************************************************************************)
(* C7: the key set of SESSIONS changes only in a successful initialize,    *)
(* which adds exactly one record, with ready = false, whose id is both the *)
(* mcp-session-id response header and sessionId of the result.             *)
(***************************************************************************)
C7_OnlyInitializeCreates ==
    [][LET succeeded == Answering /\ MethodIs("initialize") /\ HasResult(response')
       IN  /\ DOMAIN SESSIONS' # DOMAIN SESSIONS => succeeded
           /\ succeeded
              => \E sid \in DOMAIN SESSIONS' \ DOMAIN SESSIONS :
                    /\ DOMAIN SESSIONS' = DOMAIN SESSIONS \cup {sid}
                    /\ SESSIONS'[sid] = [ready |-> FALSE]
                    /\ response'.status = 200
                    /\ IssuesSession(response')
                    /\ response'.headers["mcp-session-id"] = sid
                    /\ response'.body.result.sessionId = sid]_vars

\* the first session, just created, returned in header and body
C7_Witness ==
    /\ Answered /\ MethodIs("initialize") /\ HasResult(response)
    /\ DOMAIN SESSIONS = {response.body.result.sessionId}
    /\ ~SESSIONS[response.body.result.sessionId].ready

(***************************************************************************)
(* C8: a request answered with a JSON-RPC error leaves SESSIONS as it was. *)
(***************************************************************************)
C8_ErrorsLeaveStore ==
    [][(Answering /\ HasError(response')) => SESSIONS' = SESSIONS]_vars

\* invalid initialize parameters rejected while the store holds a ready session
C8_Witness ==
    /\ Answered /\ ErrorIs(response, -32602)
    /\ \E s \in DOMAIN SESSIONS : SESSIONS[s].ready

(***************************************************************************)
(* C9: a body that is not JSON, or JSON but not an object, is answered     *)
(* HTTP 400 with error -32700 or -32600 and id null, whatever the session  *)
(* header and store; no session is issued or changed.                      *)
(***************************************************************************)
C9_MalformedBody ==
    [][(Answering /\ request.body.t # "dict")
       => /\ response'.status = 400
          /\ HasError(response')
          /\ response'.body.error.code \in {-32700, -32600}
          /\ response'.body.id = None
          /\ ~IssuesSession(response')
          /\ SESSIONS' = SESSIONS]_vars

\* a JSON array sent with the id of a ready session
C9_Witness ==
    /\ Answered /\ request.body = JList(<<JInt(1)>>)
    /\ Known(SESSIONS) /\ SESSIONS[Presented.v].ready
    /\ ErrorIs(response, -32600)

(***************************************************************************)
(* C10: a response carrying result or error echoes the id of the request   *)
(* as supplied, whatever its type (null when absent); it is null only when *)
(* no id could be read from the request.  Stated for the requests that are *)
(* objects with a string jsonrpc, a string method and object or no params, *)
(* so that the id is all that varies.                                      *)
(***************************************************************************)
IdReadable ==
    /\ request.body.t = "dict"
    /\ Get(request.body.v, "jsonrpc", None).t = "str"
    /\ Get(request.body.v, "method", None).t = "str"
    /\ Get(request.body.v, "params", None).t \in {"null", "dict"}

C10_IdEchoed ==
    (Answered /\ (HasResult(response) \/ HasError(response)) /\ IdReadable)
    => response.body.id = Get(request.body.v, "id", None)

(***************************************************************************)
(* C11: the HTTP status of a POST /mcp response is 400 exactly when the    *)
(* body carries error -32700, -32600 or -32000, 202 exactly for an         *)
(* accepted notifications/initialized, and 200 for every other outcome.    *)
(***************************************************************************)
C11_StatusCodes ==
    Answered
    => /\ response.status = 400
          <=> (\/ ErrorIs(response, -32700)
               \/ ErrorIs(response, -32600)
               \/ ErrorIs(response, -32000))
       /\ response.status = 202
          <=> (MethodIs("notifications/initialized") /\ Known(SESSIONS))
       /\ response.status \in {400, 202, 200}

(***************************************************************************)
(* Vocabulary of the tools/call properties.                                *)
(***************************************************************************)
\* the params of a validated request, as the tools/call branch reads them
CallParamsOf == IF Falsy(Decoded.params) THEN EmptyDict ELSE Decoded.params.v
CallName == Get(CallParamsOf, "name", None)
CallNameIs(n) == MethodIs("tools/call") /\ CallName = JStr(n)
Arguments == Get(CallParamsOf, "arguments", Absent)
\* arguments is a mapping, or is left out or null
ArgumentsUsable == Arguments.t \in {"dict", "absent", "null"}
\* an argument of the call, d when it or arguments is left out
Argument(k, d) == IF Arguments.t = "dict" THEN Get(Arguments.v, k, d) ELSE d

(***************************************************************************)
(* C12: get_student_profile with a known session is answered with a       *)
(* success result, HTTP 200 and isError = false, never a JSON-RPC error:   *)
(* structuredContent is the fixture record when student_id is a key of the *)
(* table and {error: "not found", student_id: <input>} otherwise, an       *)
(* absent student_id counting as the empty string.                         *)
(***************************************************************************)
C12_ProfileLookup ==
    (Answered /\ CallNameIs("get_student_profile") /\ Known(SESSIONS))
    => /\ response.status = 200
       /\ ~HasError(response)
       /\ HasResult(response)
       /\ response.body.result.isError = FALSE
       /\ ArgumentsUsable
          => LET student_id == Argument("student_id", JStr(""))
             IN  response.body.result.structuredContent =
                    IF student_id.t = "str" /\ student_id.v \in DOMAIN FIX
                    THEN FIX[student_id.v]
                    ELSE [error |-> "not found", student_id |-> student_id]

(***************************************************************************)
(* C18: ping with a known session always succeeds: one text block          *)
(* "pong: " followed by arguments.message (empty when message or arguments *)
(* is absent) and structuredContent = {ok: true}.                          *)
(***************************************************************************)
C18_PingSucceeds ==
    (Answered /\ CallNameIs("ping") /\ Known(SESSIONS))
    => /\ response.status = 200
       /\ HasResult(response)
       /\ response.body.result.structuredContent = [ok |-> TRUE]
       /\ Len(response.body.result.content) = 1
       /\ response.body.result.content[1].type = "text"
       /\ (ArgumentsUsable /\ Argument("message", JStr("")).t = "str")
          => response.body.result.content[1].text
                = "pong: " \o Argument("message", JStr("")).v

(***************************************************************************)
(* C20: a tools/call presenting a known session id is answered with a      *)
(* JSON-RPC envelope, a success result or error -32601, whatever the shape *)
(* of arguments and of the argument values.                                *)
(***************************************************************************)
C20_ToolsCallAnswered ==
    (Answered /\ MethodIs("tools/call") /\ Known(SESSIONS))
    => (HasResult(response) \/ ErrorIs(response, -32601))

(***************************************************************************)
(* C13: a tools/call with a known session id whose name is not a           *)
(* registered tool (an absent name included) is answered with error        *)
(* -32601 naming it, and no tool result is produced.                       *)
(***************************************************************************)
C13_UnknownTool ==
    (/\ Answered /\ MethodIs("tools/call") /\ Known(SESSIONS)
     /\ CallName \notin {JStr("ping"), JStr("get_student_profile")})
    => /\ response.status = 200
       /\ ErrorIs(response, -32601)
       /\ ~HasResult(response)
       /\ response.body.error.message =
             "Unknown tool '"
             \o (IF CallName.t = "str" THEN CallName.v ELSE "None") \o "'"

\* an unregistered name sent with arguments that are not a mapping
C13_Witness ==
    /\ Answered /\ CallNameIs("nope") /\ Known(SESSIONS)
    /\ Arguments.t = "list"
    /\ ErrorIs(response, -32601)

(***************************************************************************)
(* C14 as stated: a request with an unrecognized method is rejected with   *)
(* error -32601 "Unknown method '<method>'" in any session state.          *)
(***************************************************************************)
Unrecognized ==
    /\ ValidEnvelope
    /\ Decoded.method \notin {JStr("initialize"), JStr("notifications/initialized"),
                              JStr("tools/list"), JStr("tools/call")}

C14_UnknownMethodAnyState ==
    (Answered /\ Unrecognized)
    => /\ ErrorIs(response, -32601)
       /\ response.body.error.message = "Unknown method '" \o Decoded.method.v \o "'"

(***************************************************************************)
(* C14 amended: a request with an unrecognized method that presents a      *)
(* known session id is rejected with error -32601 "Unknown method          *)
(* '<method>'", whether the session is ready or not; without a known       *)
(* session id it is rejected with error -32000.                            *)
(***************************************************************************)
C14_UnknownMethod ==
    (Answered /\ Unrecognized)
    => IF Known(SESSIONS)
       THEN /\ response.status = 200
            /\ ErrorIs(response, -32601)
            /\ response.body.error.message
                  = "Unknown method '" \o Decoded.method.v \o "'"
       ELSE ErrorIs(response, -32000)

\* an unrecognized method sent with the id of a session that is not ready
C14_Witness ==
    /\ Answered /\ MethodIs("foo/bar") /\ Known(SESSIONS)
    /\ ~SESSIONS[Presented.v].ready
    /\ ErrorIs(response, -32601)

(***************************************************************************)
(* C15 as stated: an object envelope without the method field is not       *)
(* rejected by the envelope decoder; it is dispatched with method None and *)
(* ends in the unknown-method outcome.                                     *)
(***************************************************************************)
\* an object whose only defect is the missing method
LacksMethod ==
    /\ request.body.t = "dict"
    /\ "method" \notin DOMAIN request.body.v
    /\ Get(request.body.v, "jsonrpc", None).t = "str"
    /\ Get(request.body.v, "id", None).t \in {"null", "str"}
    /\ Get(request.body.v, "params", None).t \in {"null", "dict"}

C15_MissingMethodDispatched ==
    (Answered /\ LacksMethod)
    => /\ ~ErrorIs(response, -32600)
       /\ Known(SESSIONS) => ErrorIs(response, -32601)

(***************************************************************************)
(* C15 amended: an object envelope without the method field is rejected by *)
(* the envelope decoder, before dispatch and before the session check:     *)
(* error -32600 "Invalid Request" naming the field, id null, HTTP 400.     *)
(***************************************************************************)
C15_MissingMethodRejected ==
    (Answered /\ LacksMethod)
    => /\ response.status = 400
       /\ ErrorIs(response, -32600)
       /\ response.body.error.message = "Invalid Request"
       /\ "method" \in response.body.error.data.v
       /\ response.body.id = None

\* an envelope without method, with an id, sent with a known session id
C15_Witness ==
    /\ Answered /\ LacksMethod /\ Known(SESSIONS)
    /\ Get(request.body.v, "id", None) = JStr("a")
    /\ ErrorIs(response, -32600)

(***************************************************************************)
(* C16: an initialize request whose params fail validation (params absent, *)
(* or protocolVersion, clientInfo or capabilities absent or of the wrong   *)
(* shape) is rejected with error -32602 carrying a diagnostic in data and  *)
(* the id of the request, and issues no session.                           *)
(***************************************************************************)
\* the params as sent: protocolVersion a string, the other two objects
WellShapedInit ==
    LET p == Get(request.body.v, "params", None)
    IN  /\ p.t = "dict"
        /\ Get(p.v, "protocolVersion", Absent).t = "str"
        /\ Get(p.v, "clientInfo", Absent).t = "dict"
        /\ Get(p.v, "capabilities", Absent).t = "dict"

C19_InitializeIgnoresHeader ==
    [][(Answering /\ MethodIs("initialize"))
       => /\ WellShapedInit => HasResult(response')
          /\ HasResult(response')
             => LET sid == response'.body.result.sessionId
                IN  /\ sid \notin DOMAIN SESSIONS
                    /\ Known(SESSIONS) => sid # Presented.v
                    /\ DOMAIN SESSIONS' = DOMAIN SESSIONS \cup {sid}
          /\ \A s \in DOMAIN SESSIONS :
                s \in DOMAIN SESSIONS' /\ SESSIONS'[s] = SESSIONS[s]
          /\ \E sid \in SessionIds :
                LET out == Handle(Req(request.route, request.body, None),
                                  SESSIONS, sid, pydantic)
                IN  /\ response' = [status |-> out.status, headers |-> out.headers,
                                    body |-> out.body]
                    /\ SESSIONS' = out.sessions]_vars

\* an initialize presenting the id of a ready session got a second session
C19_Witness ==
    /\ Answered /\ MethodIs("initialize") /\ HasResult(response)
    /\ Known(SESSIONS) /\ SESSIONS[Presented.v].ready
    /\ response.body.result.sessionId # Presented.v
    /\ ~SESSIONS[response.body.result.sessionId].ready

(***************************************************************************)
(* C17: under any interleaving of concurrently handled requests, each      *)
(* suspended only at the await of its body, the store changes only when a  *)
(* handler resumes, and then exactly as the sequential handling of that    *)
(* one request on the store it finds: an initialize adds one new not-ready *)
(* record, a notifications/initialized for a key of the store sets that    *)
(* record ready and is answered 202, one for any other token is refused    *)
(* and changes nothing.  The store is therefore the one of the sequential  *)
(* order in which the handlers resumed: every issued session is a key, no  *)
(* record disappears, no ready flag is reset, and no handler fails on a    *)
(* missing session.                                                        *)
(***************************************************************************)
Resuming == BagCardinality(suspended') < BagCardinality(suspended)

C17_Serializable ==
    [][/\ \A s \in DOMAIN SESSIONS :
             s \in DOMAIN SESSIONS' /\ (SESSIONS[s].ready => SESSIONS'[s].ready)
       /\ DOMAIN SESSIONS' = issued'
       /\ ~Resuming => SESSIONS' = SESSIONS
       /\ Resuming
          => /\ response'.status # 500
             /\ \E sid \in SessionIds :
                   SESSIONS' = Handle(request', SESSIONS, sid, pydantic).sessions
             /\ IsInitialize(request')
                => /\ HasResult(response')
                   /\ LET sid == response'.body.result.sessionId
                      IN  /\ sid \notin DOMAIN SESSIONS
                          /\ SESSIONS' = (sid :> [ready |-> FALSE]) @@ SESSIONS
             /\ ~IsInitialize(request')
                => LET h == request'.mcp_session_id.v
                   IN  IF h \in DOMAIN SESSIONS
                       THEN /\ response'.status = 202
                            /\ SESSIONS' = [SESSIONS EXCEPT ![h] = [ready |-> TRUE]]
                       ELSE /\ ErrorIs(response', -32000)
                            /\ SESSIONS' = SESSIONS]_vars

\* a notification was accepted for one session while the notification for a
\* second session, created in between and not ready yet, is still suspended
C17_Witness ==
    /\ pc = "done" /\ response.status = 202
    /\ SESSIONS[request.mcp_session_id.v].ready
    /\ \E rq \in BagToSet(suspended) :
          /\ ~IsInitialize(rq)
          /\ rq.mcp_session_id.v \in DOMAIN SESSIONS
          /\ rq.mcp_session_id.v # request.mcp_session_id.v
          /\ ~SESSIONS[rq.mcp_session_id.v].ready

====
